---- MODULE Spec2Model ----
(***************************************************************************)
(* Model of class Puppet (src/puppet.js): a Matrix client session that     *)
(* keeps a cache of room members fed by RoomState.members events, resolves *)
(* its start promise on the sync event "PREPARED", and wraps a few calls   *)
(* of the underlying matrix-js-sdk client.                                 *)
(***************************************************************************)
EXTENDS Integers, Sequences, FiniteSets, TLC

VARIABLES
    config,             \* this.config, set by the constructor, never reassigned
    client,             \* this.client: NoClient or the number of the start() that created it
    matrixRoomMembers,  \* this.matrixRoomMembers: own keys of the object -> array of user ids
    starts,             \* one record per startClient() call, in call order
    delivered,          \* history: per room, the last RoomState.members event handed to a handler since the last reset
    nSync,              \* history: number of sync events emitted so far
    ret,                \* the latest wrapper call: what it returned and, for invite(), its invites in flight
    assoc               \* the associate() call in progress

vars == <<config, client, matrixRoomMembers, starts, delivered, nSync, ret, assoc>>

-----------------------------------------------------------------------------
(* Bounds of the model *)

MaxStarts == 2      \* startClient() calls
MaxSync == 3        \* sync events emitted over all clients

-----------------------------------------------------------------------------
(* JavaScript values *)

Undefined == [undefined |-> TRUE]
Null == [null |-> TRUE]
Bool(b) == [bool |-> b]
Str(s) == [str |-> s]
Arr(a) == [arr |-> a]
Err(m) == [message |-> m]

NoClient == 0
TypeError == Err("TypeError")

-----------------------------------------------------------------------------
(* Inputs *)

RoomIds == {"!abc:example.org", "!def:example.org"}
Alice == "@alice:example.org"
Bob == "@bob:example.org"
Carol == "@carol:example.org"

\* state.members of a RoomState.members event: an object userId -> RoomMember,
\* given as its entries in insertion order
Member(u) == <<u, [userId |-> u]>>
MemberObjects ==
    { <<>>,
      <<Member(Alice), Member(Bob), Member(Carol)>>,
      <<Member(Alice), Member(Bob)>> }

SyncStates == {"PREPARED", "SYNCING", "ERROR"}

BridgeConfig == [homeserverUrl |-> "https://hs.example", domain |-> "example.org"]
PuppetConfig == [id |-> Bob, localpart |-> "bob", token |-> "tok"]
\* a configuration before and after an account was associated
Configs ==
    { [bridge |-> BridgeConfig, logLevel |-> [level |-> "debug"]],
      [bridge |-> BridgeConfig, logLevel |-> [level |-> "debug"], puppet |-> PuppetConfig] }

CreateErrors == {Err("ECONNREFUSED")}

-----------------------------------------------------------------------------
(* Pure parts of the code *)

\* Object.keys(state.members): the keys in insertion order (user ids are not
\* integer-like, so no key is moved to the front)
ObjectKeys(obj) == [i \in 1..Len(obj) |-> obj[i][1]]

\* properties every object inherits from Object.prototype (a room id is never one of them)
ProtoKeys == {"constructor", "toString", "hasOwnProperty"}

\* a promise is settled once: resolve() of a settled promise changes nothing
\* (line 45: resolve())
Resolve(p) ==
    [p EXCEPT !.resolveCalls = @ + 1,
              !.promise = IF @ = "pending" THEN "fulfilled" ELSE @,
              !.settles = IF p.promise = "pending" THEN @ + 1 ELSE @]

\* rejection of the promise of an async function that threw (lines 29-34)
Reject(p, e) ==
    [p EXCEPT !.promise = IF @ = "pending" THEN "rejected" ELSE @,
              !.reason = IF p.promise = "pending" THEN e ELSE @,
              !.settles = IF p.promise = "pending" THEN @ + 1 ELSE @]

\* (variant: the new members are added to the ones already cached)
OnRoomStateMembersUnion(cache, roomId, members) ==
    [r \in DOMAIN cache \cup {roomId} |->
        IF r # roomId THEN cache[r]
        ELSE IF roomId \notin DOMAIN cache THEN ObjectKeys(members)
        ELSE cache[r] \o SelectSeq(ObjectKeys(members),
                                   LAMBDA u : \A i \in 1..Len(cache[r]) : cache[r][i] # u)]

\* the RoomState.members handler (lines 38-40): full replacement of the room's entry
OnRoomStateMembers(cache, roomId, members) ==
    [r \in DOMAIN cache \cup {roomId} |->
        IF r = roomId THEN ObjectKeys(members) ELSE cache[r]]

\* (variant: every sync event resolves)
OnSyncAnyState(p, state) == Resolve(p)

\* the sync handler (lines 42-47)
OnSync(p, state) ==
    IF state = "PREPARED" THEN Resolve(p) ELSE p

\* getMatrixRoomMembers (lines 57-59): an array is truthy even when empty,
\* an inherited property is found through the prototype chain
getMatrixRoomMembers(roomId) ==
    IF roomId \in DOMAIN matrixRoomMembers THEN Arr(matrixRoomMembers[roomId])
    ELSE IF roomId \in ProtoKeys THEN [inherited |-> roomId]
    ELSE Arr(<<>>)

-----------------------------------------------------------------------------
(* State after the constructor (lines 14-22) *)

EmptyCache == [r \in {} |-> <<>>]
NoEvents == [r \in {} |-> <<>>]
NoCall == [op |-> "none"]

NewStart ==
    [pc |-> "awaitCreate", promise |-> "pending", reason |-> Undefined,
     resolveCalls |-> 0, settles |-> 0, stream |-> "idle",
     prepared |-> 0, others |-> 0]

Init ==
    /\ config \in Configs
    /\ client = NoClient
    /\ matrixRoomMembers = EmptyCache
    /\ starts = <<>>
    /\ delivered = NoEvents
    /\ nSync = 0
    /\ ret = NoCall
    /\ assoc = NoCall

-----------------------------------------------------------------------------
(* startClient (lines 29-49) *)

\* the call up to the await of line 30: the argument object reads
\* this.config.puppet.id, which throws when no account is associated yet
StartCall ==
    /\ Len(starts) < MaxStarts
    /\ starts' = Append(starts,
            IF "puppet" \in DOMAIN config
            THEN NewStart
            ELSE [Reject(NewStart, TypeError) EXCEPT !.pc = "failed"])
    /\ UNCHANGED <<config, client, matrixRoomMembers, delivered, nSync, ret, assoc>>

\* createClient fails: the await of line 30 throws and the promise of the
\* async function is rejected with that error
StartCreateFail(s, e) ==
    /\ starts[s].pc = "awaitCreate"
    /\ starts' = [starts EXCEPT ![s] = [Reject(@, e) EXCEPT !.pc = "failed"]]
    /\ UNCHANGED <<config, client, matrixRoomMembers, delivered, nSync, ret, assoc>>

\* (variant: the cache is kept over a restart)
ResetCacheKept(cache) == cache

\* the cache after line 37 ran
ResetCache(cache) == EmptyCache

\* the await of line 30 resumes: lines 30-48 run without interruption
StartResume(s) ==
    /\ starts[s].pc = "awaitCreate"
    /\ client' = s
    /\ matrixRoomMembers' = ResetCache(matrixRoomMembers)
    /\ starts' = [starts EXCEPT ![s].pc = "listening", ![s].stream = "running"]
    /\ delivered' = NoEvents
    /\ UNCHANGED <<config, nSync, ret, assoc>>

\* the clients on which the handlers of lines 38 and 42 are registered and
\* whose event stream is live
Emitting(c) ==
    /\ c \in 1..Len(starts)
    /\ starts[c].pc = "listening"
    /\ starts[c].stream = "running"

\* client c emits RoomState.members(event, state)
RoomStateMembers(c, roomId, members) ==
    /\ Emitting(c)
    /\ matrixRoomMembers' = OnRoomStateMembers(matrixRoomMembers, roomId, members)
    /\ delivered' = [r \in DOMAIN delivered \cup {roomId} |->
            IF r = roomId
            THEN [client |-> c, members |-> members,
                  dropped |-> /\ roomId \in DOMAIN delivered
                              /\ Len(delivered[roomId].members) > Len(members)]
            ELSE delivered[r]]
    /\ UNCHANGED <<config, client, starts, nSync, ret, assoc>>

\* client c emits sync(state); a fatal ERROR (the homeserver refused the
\* token, the connection is gone for good) is the last event of its stream
Sync(c, state, fatal) ==
    /\ Emitting(c)
    /\ nSync < MaxSync
    /\ fatal => state = "ERROR"
    /\ nSync' = nSync + 1
    /\ starts' = [starts EXCEPT ![c] =
            [OnSync(@, state) EXCEPT
                !.prepared = IF state = "PREPARED" THEN @ + 1 ELSE @,
                !.others = IF state = "PREPARED" THEN @ ELSE @ + 1,
                !.stream = IF fatal THEN "ended" ELSE @]]
    /\ UNCHANGED <<config, client, matrixRoomMembers, delivered, ret, assoc>>

-----------------------------------------------------------------------------
(* The wrapper calls (lines 57-142, 180-182) *)

\* what the underlying client answers
LookupOutcomes ==
    { [ok |-> TRUE, room_id |-> r, message |-> ""] : r \in RoomIds }
    \cup { [ok |-> FALSE, room_id |-> "", message |-> m] : m \in {"M_NOT_FOUND", "ETIMEDOUT"} }
JoinOutcomes ==
    { [ok |-> TRUE, message |-> ""] }
    \cup { [ok |-> FALSE, message |-> m] :
            m \in {"No known servers", "no known servers", "No known servers.", "M_FORBIDDEN"} }
RoomLists ==
    { <<>>,
      <<[roomId |-> "!abc:example.org", aliases |-> <<"#skype_abc:example.org">>]>> }
HttpUrls == {Str("https://hs.example/_matrix/media/v1/download/example.org/abc"), Null}
InviteLists == {Undefined, Arr(<<>>), Arr(<<Alice>>), Arr(<<Alice, Carol>>)}
InviteError == Err("M_FORBIDDEN")

Return(v, logged) == [kind |-> "return", value |-> v, log |-> logged]
Throw(e, logged) == [kind |-> "throw", value |-> e, log |-> logged]

\* (variant: a failed lookup is thrown on)
getRoomRethrow(cl, outcome) ==
    IF cl = NoClient THEN Throw(TypeError, <<>>)
    ELSE IF outcome.ok THEN Return(Str(outcome.room_id), <<"debug">>)
    ELSE Throw(Err(outcome.message), <<"debug">>)

\* getRoom (lines 82-91): every failure of the lookup, the TypeError of a
\* missing client included, ends in the catch block, which returns nothing
getRoom(cl, outcome) ==
    IF cl # NoClient /\ outcome.ok
    THEN Return(Str(outcome.room_id), <<"debug">>)
    ELSE Return(Undefined, <<"debug">>)

\* getRoomAliases (lines 99-104)
getRoomAliases(cl, matrixRoomId, rooms) ==
    IF cl = NoClient THEN Throw(TypeError, <<>>)
    ELSE LET found == {i \in 1..Len(rooms) : rooms[i].roomId = matrixRoomId}
         IN IF found = {}
            THEN Return(Undefined, <<>>)
            ELSE Return(Arr(rooms[CHOOSE i \in found : \A j \in found : i <= j].aliases), <<>>)

\* (variant: every failed join asks for a new room)
joinRoomAnyFailure(cl, outcome) ==
    IF cl # NoClient /\ outcome.ok THEN Return(Undefined, <<>>)
    ELSE Return(Bool(TRUE), <<"warn">>)

\* joinRoom (lines 112-124)
joinRoom(cl, outcome) ==
    LET err == IF cl = NoClient THEN TypeError ELSE Err(outcome.message)
    IN IF cl # NoClient /\ outcome.ok THEN Return(Undefined, <<>>)
       ELSE IF err.message = "No known servers" THEN Return(Bool(TRUE), <<"warn">>)
       ELSE Return(Undefined, <<"warn">>)

\* getHttpUrl (lines 180-182)
getHttpUrl(cl, http) ==
    IF cl = NoClient THEN Throw(TypeError, <<>>) ELSE Return(http, <<>>)

GetMatrixRoomMembers(roomId) ==
    /\ ret' = [op |-> "getMatrixRoomMembers", started |-> client # NoClient, arg |-> roomId, outcome |-> Undefined,
               result |-> Return(getMatrixRoomMembers(roomId), <<>>)]
    /\ UNCHANGED <<config, client, matrixRoomMembers, starts, delivered, nSync, assoc>>

GetRoom(roomAlias, outcome) ==
    /\ ret' = [op |-> "getRoom", started |-> client # NoClient, arg |-> roomAlias, outcome |-> outcome,
               result |-> getRoom(client, outcome)]
    /\ UNCHANGED <<config, client, matrixRoomMembers, starts, delivered, nSync, assoc>>

GetRoomAliases(matrixRoomId, rooms) ==
    /\ ret' = [op |-> "getRoomAliases", started |-> client # NoClient, arg |-> matrixRoomId, outcome |-> Arr(rooms),
               result |-> getRoomAliases(client, matrixRoomId, rooms)]
    /\ UNCHANGED <<config, client, matrixRoomMembers, starts, delivered, nSync, assoc>>

JoinRoom(matrixRoomId, outcome) ==
    /\ ret' = [op |-> "joinRoom", started |-> client # NoClient, arg |-> matrixRoomId, outcome |-> outcome,
               result |-> joinRoom(client, outcome)]
    /\ UNCHANGED <<config, client, matrixRoomMembers, starts, delivered, nSync, assoc>>

GetHttpUrl(url, http) ==
    /\ ret' = [op |-> "getHttpUrl", started |-> client # NoClient, arg |-> url, outcome |-> http,
               result |-> getHttpUrl(client, http)]
    /\ UNCHANGED <<config, client, matrixRoomMembers, starts, delivered, nSync, assoc>>

(* invite (lines 133-142) *)

\* line 134: !invitedUsers holds of undefined, and of no array, not even the empty one
NoUsers(invitedUsers) == invitedUsers = Undefined

\* (variant: Promise.allSettled, fulfilled once every invite is settled)
PromiseAllSettled(agg, st) ==
    IF agg # "pending" THEN agg
    ELSE IF \A i \in 1..Len(st) : st[i] # "pending" THEN "fulfilled"
    ELSE "pending"

\* Promise.all over the invites: rejected by the first rejection, fulfilled
\* when every one is fulfilled (at once for an empty array)
PromiseAll(agg, st) ==
    IF agg # "pending" THEN agg
    ELSE IF \E i \in 1..Len(st) : st[i] = "rejected" THEN "rejected"
    ELSE IF \A i \in 1..Len(st) : st[i] = "fulfilled" THEN "fulfilled"
    ELSE "pending"

\* the calls of this.client.invite made by the map of lines 139-141
InviteCalls(matrixRoomId, list) == [i \in 1..Len(list) |-> <<matrixRoomId, list[i]>>]

invite(cl, matrixRoomId, invitedUsers) ==
    IF NoUsers(invitedUsers)
    THEN [op |-> "invite", room |-> matrixRoomId, users |-> invitedUsers, started |-> cl # NoClient,
          kind |-> "return", value |-> "undefined", log |-> <<"debug">>,
          issued |-> <<>>, st |-> <<>>, agg |-> "none", reason |-> Undefined]
    ELSE IF cl = NoClient /\ Len(invitedUsers.arr) > 0
    THEN [op |-> "invite", room |-> matrixRoomId, users |-> invitedUsers, started |-> cl # NoClient,
          kind |-> "throw", value |-> "TypeError", log |-> <<"info">>,
          issued |-> <<>>, st |-> <<>>, agg |-> "none", reason |-> Undefined]
    ELSE [op |-> "invite", room |-> matrixRoomId, users |-> invitedUsers, started |-> cl # NoClient,
          kind |-> "return", value |-> "promise", log |-> <<"info">>,
          issued |-> InviteCalls(matrixRoomId, invitedUsers.arr),
          st |-> [i \in 1..Len(invitedUsers.arr) |-> "pending"],
          agg |-> PromiseAll("pending", [i \in 1..Len(invitedUsers.arr) |-> "pending"]),
          reason |-> Undefined]

Invite(matrixRoomId, invitedUsers) ==
    /\ ret' = invite(client, matrixRoomId, invitedUsers)
    /\ UNCHANGED <<config, client, matrixRoomMembers, starts, delivered, nSync, assoc>>

\* the i-th invite of the call in flight settles; a fulfilled one is logged
\* at debug level by the then of line 141
InviteSettle(i, ok) ==
    /\ ret.op = "invite"
    /\ i \in 1..Len(ret.st)
    /\ ret.st[i] = "pending"
    /\ LET st == [ret.st EXCEPT ![i] = IF ok THEN "fulfilled" ELSE "rejected"]
           agg == PromiseAll(ret.agg, st)
       IN ret' = [ret EXCEPT
                    !.st = st,
                    !.agg = agg,
                    !.log = IF ok THEN Append(@, "debug") ELSE @,
                    !.reason = IF ret.agg = "pending" /\ agg = "rejected"
                               THEN InviteError ELSE @]
    /\ UNCHANGED <<config, client, matrixRoomMembers, starts, delivered, nSync, assoc>>

-----------------------------------------------------------------------------
(* associate (lines 147-173) *)

PathToConfig == "config.json"
Localparts == {"bob", "alice", "carol"}
Passwords == {"hunter2", ""}
Tokens == {"syt_token_1", "syt_token_2"}
PromptError == Err("EOF")
CreateError == Err("ECONNREFUSED")
LoginError == Err("M_FORBIDDEN")
WriteError == Err("EACCES")

\* line 154
PuppetId(localpart) == "@" \o localpart \o ":" \o config.bridge.domain

\* (variant: the spread of this.config is left out)
MergedConfigNoSpread(id, localpart, token) ==
    [k \in {"puppet"} |-> [id |-> id, localpart |-> localpart, token |-> token]]

\* lines 160-167: the object literal {...this.config, puppet: {id, localpart, token}}
MergedConfig(id, localpart, token) ==
    [k \in DOMAIN config \cup {"puppet"} |->
        IF k = "puppet"
        THEN [id |-> id, localpart |-> localpart, token |-> token]
        ELSE config[k]]

\* JSON.stringify(value, null, 2): the text of the object, in which a key
\* whose value is undefined does not appear
JSONStringify(obj) ==
    [json |-> [k \in {x \in DOMAIN obj : obj[x] # Undefined} |-> obj[k]]]

\* lines 169-172: the catch block logs the error and throws it again
Catch(a, error) ==
    [a EXCEPT !.pc = "done",
              !.log = Append(@, "error"),
              !.result = [state |-> "rejected", reason |-> error]]

\* the call up to the await of line 157: both prompts, then createClient;
\* a prompt that fails (end of input) throws out of readline.question
Associate(localpart, password, promptOk) ==
    /\ IF assoc.op = "none" THEN TRUE ELSE assoc.pc = "done"
    /\ LET a == [op |-> "associate", pc |-> "awaitCreate",
                 localpart |-> localpart, id |-> PuppetId(localpart), password |-> password,
                 token |-> "", login |-> <<>>, writes |-> <<>>, log |-> <<"info">>,
                 thrown |-> Undefined, result |-> [state |-> "pending", reason |-> Undefined]]
       IN assoc' = IF promptOk THEN a
                   ELSE Catch([a EXCEPT !.thrown = PromptError, !.localpart = "", !.id = "",
                                        !.password = ""], PromptError)
    /\ UNCHANGED <<config, client, matrixRoomMembers, starts, delivered, nSync, ret>>

\* line 157 resumes and line 158 calls loginWithPassword, or createClient threw
AssociateCreated(ok) ==
    /\ assoc.op = "associate"
    /\ assoc.pc = "awaitCreate"
    /\ assoc' = IF ok
                THEN [assoc EXCEPT !.pc = "awaitLogin",
                                   !.login = Append(@, <<assoc.id, assoc.password>>)]
                ELSE Catch([assoc EXCEPT !.thrown = CreateError], CreateError)
    /\ UNCHANGED <<config, client, matrixRoomMembers, starts, delivered, nSync, ret>>

\* line 158 resumes with the access data and line 160 calls writeFile, or the
\* login was refused
AssociateLogin(ok, token) ==
    /\ assoc.op = "associate"
    /\ assoc.pc = "awaitLogin"
    /\ assoc' = IF ok
                THEN [assoc EXCEPT
                        !.pc = "awaitWrite",
                        !.token = token,
                        !.log = Append(@, "info"),
                        !.writes = Append(@,
                            [path |-> PathToConfig,
                             data |-> JSONStringify(
                                MergedConfig(assoc.id, assoc.localpart, token))])]
                ELSE Catch([assoc EXCEPT !.thrown = LoginError], LoginError)
    /\ UNCHANGED <<config, client, matrixRoomMembers, starts, delivered, nSync, ret>>

\* line 160 resumes, or writeFile failed
AssociateWritten(ok) ==
    /\ assoc.op = "associate"
    /\ assoc.pc = "awaitWrite"
    /\ assoc' = IF ok
                THEN [assoc EXCEPT !.pc = "done",
                                   !.log = Append(@, "info"),
                                   !.result = [state |-> "fulfilled", reason |-> Undefined]]
                ELSE Catch([assoc EXCEPT !.thrown = WriteError], WriteError)
    /\ UNCHANGED <<config, client, matrixRoomMembers, starts, delivered, nSync, ret>>

-----------------------------------------------------------------------------
(* Specifications *)

StartSteps ==
    \/ StartCall
    \/ \E s \in 1..Len(starts), e \in CreateErrors : StartCreateFail(s, e)
    \/ \E s \in 1..Len(starts) : StartResume(s)

MemberEvents ==
    \E c \in 1..Len(starts), r \in RoomIds, m \in MemberObjects : RoomStateMembers(c, r, m)

\* the session and its event stream
Next ==
    \/ StartSteps
    \/ MemberEvents
    \/ \E c \in 1..Len(starts), st \in SyncStates, f \in BOOLEAN : Sync(c, st, f)

Spec == Init /\ [][Next]_vars

\* the session, its room-state events and the wrapper calls
NextOps ==
    \/ StartSteps
    \/ MemberEvents
    \/ \E r \in RoomIds : GetMatrixRoomMembers(r)
    \/ \E o \in LookupOutcomes : GetRoom("#skype_abc:example.org", o)
    \/ \E r \in RoomIds, l \in RoomLists : GetRoomAliases(r, l)
    \/ \E o \in JoinOutcomes : JoinRoom("!abc:example.org", o)
    \/ \E h \in HttpUrls : GetHttpUrl("mxc://example.org/abc", h)
    \/ \E u \in InviteLists : Invite("!abc:example.org", u)
    \/ \E i \in 1..2, ok \in BOOLEAN : InviteSettle(i, ok)

SpecOps == Init /\ [][NextOps]_vars

\* the account association
NextAssociate ==
    \/ \E l \in Localparts, p \in Passwords, ok \in BOOLEAN : Associate(l, p, ok)
    \/ \E ok \in BOOLEAN : AssociateCreated(ok)
    \/ \E ok \in BOOLEAN, t \in Tokens : AssociateLogin(ok, t)
    \/ \E ok \in BOOLEAN : AssociateWritten(ok)

SpecAssociate == Init /\ [][NextAssociate]_vars

-----------------------------------------------------------------------------
(* Properties *)

Started(s) == starts[s].pc = "listening"

\* C1: the promise of a start() whose handlers are registered is pending until
\* the first sync event "PREPARED" of its client and fulfilled from then on:
\* it is settled exactly once, sync events of any other state do not settle
\* it, and later sync events (further "PREPARED" included) neither settle it
\* again nor reject it.
C1_SettledOnceByFirstPrepared ==
    \A s \in 1..Len(starts) :
        /\ starts[s].settles <= 1
        /\ Started(s) =>
            /\ starts[s].promise = (IF starts[s].prepared >= 1 THEN "fulfilled" ELSE "pending")
            /\ starts[s].settles = (IF starts[s].prepared >= 1 THEN 1 ELSE 0)
            /\ starts[s].resolveCalls = starts[s].prepared
            /\ starts[s].reason = Undefined

\* a start whose client emitted "PREPARED" twice and another state as well
C1_Witness ==
    \E s \in 1..Len(starts) :
        /\ Started(s)
        /\ starts[s].prepared >= 2
        /\ starts[s].others >= 1
        /\ starts[s].promise = "fulfilled"
        /\ starts[s].settles = 1

\* the member list an event carries: the user ids of its members, in order
CarriedList(members) == [i \in 1..Len(members) |-> members[i][2].userId]

\* C2: for every room id, getMatrixRoomMembers returns exactly the member
\* list of the latest RoomState.members event delivered for the room since the
\* cache was last reset, and the empty array when there was none; this holds
\* whether or not the start promise is resolved.
C2_LatestEventWins ==
    \A r \in RoomIds :
        getMatrixRoomMembers(r) =
            IF r \in DOMAIN delivered
            THEN Arr(CarriedList(delivered[r].members))
            ELSE Arr(<<>>)

\* a room whose list of three members was replaced by a list of two of them,
\* beside a room no event mentioned, after the start promise resolved
C2_Witness ==
    /\ \E r \in DOMAIN delivered :
        /\ delivered[r].dropped
        /\ getMatrixRoomMembers(r) = Arr(<<Alice, Bob>>)
    /\ \E r \in RoomIds : r \notin DOMAIN delivered /\ getMatrixRoomMembers(r) = Arr(<<>>)
    /\ \E s \in 1..Len(starts) : starts[s].promise = "fulfilled"

\* start() s runs to its end in this step: it leaves the await of line 30,
\* or it is called and throws before reaching it
StartEnds(s) ==
    /\ s \in 1..Len(starts')
    /\ starts'[s].pc # "awaitCreate"
    /\ IF s <= Len(starts) THEN starts[s].pc = "awaitCreate" ELSE TRUE

StartResets(s) ==
    /\ s \in 1..Len(starts)
    /\ starts[s].pc = "awaitCreate"
    /\ starts'[s].pc = "listening"

KeysKept == DOMAIN matrixRoomMembers \subseteq DOMAIN matrixRoomMembers'

\* C3 as stated: every call of start() resets the cache to empty, and in every
\* other step the key set of the cache only grows.
C3_EveryStartResets ==
    [][/\ \A s \in 1..MaxStarts : StartEnds(s) => matrixRoomMembers' = EmptyCache
       /\ (\A s \in 1..MaxStarts : ~StartEnds(s)) => KeysKept]_vars

\* C3, amended: every start() whose client construction succeeds resets the
\* cache to empty when the await of that construction resumes; a start() whose
\* construction fails leaves the cache as it is; in every step that is not
\* such a reset (room-state events, the wrapper calls, settling invites) the
\* key set of the cache only grows.
C3_ConstructedStartResets ==
    [][/\ \A s \in 1..MaxStarts : StartResets(s) => matrixRoomMembers' = EmptyCache
       /\ (\A s \in 1..MaxStarts : ~StartResets(s)) => KeysKept]_vars

\* a restart emptied a cache from which getMatrixRoomMembers had returned three
\* members, and the cache holds a room again
C3_Witness ==
    /\ ret.op = "getMatrixRoomMembers"
    /\ ret.arg = "!abc:example.org"
    /\ ret.result.value = Arr(<<Alice, Bob, Carol>>)
    /\ DOMAIN matrixRoomMembers = {"!def:example.org"}
    /\ \A s \in 1..Len(starts) : Started(s)
    /\ Len(starts) = 2

\* C4: invite() of a non-empty list on a started session issues exactly one
\* invite per listed user, all at the call; the aggregate promise is fulfilled
\* exactly when every invite is fulfilled and rejected as soon as one invite
\* is rejected, whatever the others did.
C4_InviteAllOrNothing ==
    (/\ ret.op = "invite"
     /\ ret.started
     /\ IF ret.users = Undefined THEN FALSE ELSE Len(ret.users.arr) > 0)
    => /\ ret.kind = "return"
       /\ ret.value = "promise"
       /\ Len(ret.issued) = Len(ret.users.arr)
       /\ \A i \in 1..Len(ret.issued) : ret.issued[i] = <<ret.room, ret.users.arr[i]>>
       /\ Len(ret.st) = Len(ret.issued)
       /\ ret.agg = "fulfilled" <=> \A i \in 1..Len(ret.st) : ret.st[i] = "fulfilled"
       /\ ret.agg = "rejected" <=> \E i \in 1..Len(ret.st) : ret.st[i] = "rejected"

\* two invites, the first fulfilled and the second rejected: the aggregate is rejected
C4_Witness ==
    /\ ret.op = "invite"
    /\ ret.started
    /\ ret.users = Arr(<<Alice, Carol>>)
    /\ ret.st = <<"fulfilled", "rejected">>
    /\ ret.agg = "rejected"

C6_StartFailureRejects ==
    \A s \in 1..Len(starts) :
        /\ starts[s].pc = "failed" => starts[s].promise = "rejected"
        /\ (Started(s) /\ starts[s].stream = "ended" /\ starts[s].prepared = 0)
            => starts[s].promise = "rejected"

\* the object a JSON text reads back as
JSONParse(text) == text.json

\* C7: associate() writes the config file at most once and only after the
\* login succeeded; what it writes reads back as the configuration with every
\* key kept and puppet set to {id, localpart, token}, id being
\* "@" + localpart + ":" + domain and token the access token of the login;
\* when the prompt, the construction, the login or the write fails, nothing is
\* written after the failure, the error is logged and the call is rejected
\* with that same error.
C7_AssociateWritesOnceAfterLogin ==
    assoc.op = "associate" =>
        /\ Len(assoc.writes) <= 1
        /\ Len(assoc.writes) = 1 =>
            /\ assoc.token \in Tokens
            /\ assoc.login = <<<<assoc.id, assoc.password>>>>
            /\ assoc.writes[1].path = PathToConfig
            /\ LET written == JSONParse(assoc.writes[1].data)
               IN /\ DOMAIN written = DOMAIN config \cup {"puppet"}
                  /\ \A k \in DOMAIN config \ {"puppet"} : written[k] = config[k]
                  /\ written.puppet =
                        [id |-> "@" \o assoc.localpart \o ":" \o config.bridge.domain,
                         localpart |-> assoc.localpart,
                         token |-> assoc.token]
        /\ assoc.result.state = "fulfilled" => Len(assoc.writes) = 1
        /\ assoc.result.state = "rejected" <=> assoc.thrown # Undefined
        /\ assoc.thrown # Undefined =>
            /\ assoc.pc = "done"
            /\ assoc.result.reason = assoc.thrown
            /\ assoc.log[Len(assoc.log)] = "error"
            /\ Len(assoc.writes) = (IF assoc.thrown = WriteError THEN 1 ELSE 0)

\* an association that replaced the puppet record of a configuration
C7_Witness ==
    /\ assoc.op = "associate"
    /\ assoc.result.state = "fulfilled"
    /\ "puppet" \in DOMAIN config
    /\ Len(assoc.writes) = 1
    /\ JSONParse(assoc.writes[1].data).puppet =
            [id |-> Alice, localpart |-> "alice", token |-> "syt_token_2"]
    /\ JSONParse(assoc.writes[1].data).bridge = BridgeConfig

\* C8 as stated: invite() of an absent or empty list issues no invite, is
\* settled at once and logs at debug level that every member is present.
C8_NoUsersNoOp ==
    (/\ ret.op = "invite"
     /\ IF ret.users = Undefined THEN TRUE ELSE Len(ret.users.arr) = 0)
    => /\ ret.issued = <<>>
       /\ ret.kind = "return"
       /\ ret.agg # "pending"
       /\ ret.log = <<"debug">>

\* C9: getRoom never throws; it returns the room id of a successful lookup and
\* undefined after any failed one.
C9_GetRoomNeverThrows ==
    ret.op = "getRoom" =>
        /\ ret.result.kind = "return"
        /\ ret.result.value =
            (IF ret.started /\ ret.outcome.ok THEN Str(ret.outcome.room_id) ELSE Undefined)

\* a lookup that failed for another reason than a missing alias
C9_Witness ==
    /\ ret.op = "getRoom"
    /\ ret.started
    /\ ~ret.outcome.ok
    /\ ret.outcome.message = "ETIMEDOUT"
    /\ ret.result.value = Undefined

\* C10 as stated: every entry of the cache comes from an event of the client
\* the session holds now.
C10_SingleWriter ==
    \A r \in DOMAIN delivered : delivered[r].client = client

====
